---- MODULE Spec2Model ----
(***************************************************************************)
(* Model of the video-preview Lambda function                              *)
(* (.aws-sam/build/VideoProcessingFunction/lambda_function.py) and of the  *)
(* sample planner it imports from preview.py.                              *)
(*                                                                         *)
(* Strings are sequences of one-character strings; a percent escape of an  *)
(* object key ("%2E") is one element.  Floats are exact rationals <<n, d>> *)
(* with d > 0, kept in lowest terms.                                       *)
(***************************************************************************)
EXTENDS Integers, Sequences, FiniteSets, TLC

(***************************************************************************)
(* Bounds of the model                                                      *)
(***************************************************************************)
MaxSamples == 4            \* 'samples' ranges over -1 .. MaxSamples
MaxSampleDuration == 2     \* 'sample_duration' ranges over -1 .. MaxSampleDuration
DurDen == 2                \* probed durations are multiples of 1/DurDen second
MaxDurNum == 40            \* probed durations range over -1/DurDen .. MaxDurNum/DurDen

(***************************************************************************)
(* Program constants                                                        *)
(***************************************************************************)
DefaultSamples == 4
DefaultSampleDuration == 2

None == "None"

(***************************************************************************)
(* Exact rational arithmetic standing for Python's float arithmetic        *)
(***************************************************************************)
Abs(x) == IF x < 0 THEN -x ELSE x

RECURSIVE GCD(_, _)
GCD(a, b) == IF b = 0 THEN a ELSE GCD(b, a % b)

Rat(n, d) ==
    LET g == GCD(Abs(n), d) IN <<n \div g, d \div g>>

RInt(k) == <<k, 1>>
RSub(x, y) == Rat(x[1] * y[2] - y[1] * x[2], x[2] * y[2])
RAdd(x, y) == Rat(x[1] * y[2] + y[1] * x[2], x[2] * y[2])
RMulInt(x, k) == Rat(x[1] * k, x[2])
RDivInt(x, k) == Rat(x[1], x[2] * k)
RLe(x, y) == x[1] * y[2] <= y[1] * x[2]
RLt(x, y) == x[1] * y[2] < y[1] * x[2]
RMin(x, y) == IF RLe(x, y) THEN x ELSE y
RMax(x, y) == IF RLe(x, y) THEN y ELSE x

(***************************************************************************)
(* Sample planner (preview.calculate_sample_seconds)                       *)
(***************************************************************************)
InvalidInput == [ok |-> FALSE, plan |-> <<>>]

Clamp(t, lo, hi) == RMax(lo, RMin(t, hi))

calculate_sample_seconds(duration, sample_count, sd) ==
    IF RLe(duration, RInt(0)) \/ sample_count < 1 \/ sd <= 0
    THEN InvalidInput
    ELSE IF RLe(duration, RInt(sd))
    THEN [ok |-> TRUE, plan |-> <<RInt(0)>>]
    ELSE LET usable_span == RSub(duration, RInt(sd)) IN
         IF sample_count = 1
         THEN [ok |-> TRUE, plan |-> <<RDivInt(usable_span, 2)>>]
         ELSE LET step == RDivInt(usable_span, sample_count - 1) IN
              [ok |-> TRUE,
               plan |-> [k \in 1..sample_count |->
                           Clamp(RMulInt(step, k - 1), RInt(0), usable_span)]]

(***************************************************************************)
(* String functions of the Python library used by the handler              *)
(***************************************************************************)
SetMax(S) == CHOOSE x \in S : \A y \in S : y <= x
SetMin(S) == CHOOSE x \in S : \A y \in S : x <= y

unquote_char(c) ==
    CASE c = "+"   -> " "
      [] c = "%2E" -> "."
      [] c = "%2F" -> "/"
      [] c = "%20" -> " "
      [] OTHER     -> c

unquote_plus(s) == [k \in 1..Len(s) |-> unquote_char(s[k])]

basename(p) ==
    LET ks == {k \in 1..Len(p) : p[k] = "/"} IN
    IF ks = {} THEN p ELSE SubSeq(p, SetMax(ks) + 1, Len(p))

RECURSIVE split(_, _)
split(s, c) ==
    LET ks == {k \in 1..Len(s) : s[k] = c} IN
    IF ks = {} THEN <<s>>
    ELSE LET k == SetMin(ks) IN
         <<SubSeq(s, 1, k - 1)>> \o split(SubSeq(s, k + 1, Len(s)), c)

join(a, b) ==
    IF b # <<>> /\ b[1] = "/" THEN b
    ELSE IF a = <<>> \/ a[Len(a)] = "/" THEN a \o b
    ELSE a \o <<"/">> \o b

(***************************************************************************)
(* Inputs: S3 events, responses of S3, of the media engine and of the file *)
(* system                                                                   *)
(***************************************************************************)
NoEvent == [bucket |-> "", key |-> <<>>]

Events ==
    { [bucket |-> "in",  key |-> <<"a", "/", "v", ".", "m", "p", "4">>],
      [bucket |-> "in",  key |-> <<"b", "/", "v", ".", "m", "p", "4">>],
      [bucket |-> "in",  key |-> <<"w", "+", "x", ".", "m", "o", "v">>],
      [bucket |-> "out", key |-> <<"v", "%2E", "m", "p", "4">>],
      [bucket |-> "in",  key |-> <<"a", "/", "r", "a", "w">>],
      [bucket |-> "in",  key |-> <<"v", ".", "1", ".", "m", "p", "4">>] }

\* with keys that have the form of the keys the handler uploads to
KeyEvents ==
    Events \cup
    { [bucket |-> "out", key |-> <<"o", "u", "t", "p", "u", "t", "/", "v", "_", "p", "r", "e", "v", ".", "m", "p", "4">>],
      [bucket |-> "out", key |-> <<"v", "_", "p", "r", "e", "v", ".", "m", "p", "4">>] }

\* the events of concurrent invocations: two keys with one base name, a key
\* with another base name, and a key whose base name has no extension
ConcEvents ==
    { ev \in Events : ev.key \in { <<"a", "/", "v", ".", "m", "p", "4">>,
                                   <<"b", "/", "v", ".", "m", "p", "4">>,
                                   <<"w", "+", "x", ".", "m", "o", "v">>,
                                   <<"a", "/", "r", "a", "w">> } }

\* event['Records']: one record, or two records naming different objects
Records(EV) ==
    { <<ev>> : ev \in EV }
    \cup { <<a, b>> : a \in {ev \in EV : ev.key[1] = "a"},
                      b \in {ev \in EV : ev.key[1] = "w"} }
    \cup { <<b, a>> : a \in {ev \in EV : ev.key[1] = "a"},
                      b \in {ev \in EV : ev.key[1] = "w"} }

ConcRecords == { <<ev>> : ev \in ConcEvents }
PlanRecords == { <<ev>> : ev \in Events }

TmpNames == {"tmp1", "tmp2"}
TmpDir == <<"/", "t", "m", "p">>

EngineDiag == {"moov atom not found", "Invalid data found"}

OutputBuckets == {"out", None}

Durations == { Rat(n, DurDen) : n \in -1..MaxDurNum }
ConcDurations == { RInt(0), Rat(MaxDurNum, DurDen) }

\* what ffmpeg.probe can answer: an error with the engine's stderr, or
\* metadata whose format.duration is a number, is text that is no number, or
\* is absent
ProbeAnswers(DS) ==
    { [kind |-> "error", stderr |-> x, duration |-> <<0, 0>>] : x \in EngineDiag }
    \cup { [kind |-> "ok", stderr |-> None, duration |-> d] : d \in DS }
    \cup { [kind |-> k, stderr |-> None, duration |-> <<0, 0>>] :
             k \in {"no_duration", "unparseable"} }

(***************************************************************************)
(* State                                                                    *)
(***************************************************************************)
VARIABLES
    samples, sample_duration, scale, format, s3_output_prefix, debug,
    frame,      \* frame[i]: the locals and position of invocation i
    files       \* local file system: path -> content, for the paths that exist

config == <<samples, sample_duration, scale, format, s3_output_prefix, debug>>
vars == <<samples, sample_duration, scale, format, s3_output_prefix, debug, frame, files>>

Invs == {1, 2}

Stages == <<"download", "probe", "plan", "generate", "upload">>
StageNames == {Stages[k] : k \in 1..Len(Stages)} \cup {"remove"}

NoError == [type |-> None, stage |-> None, stderr |-> None]
NoResponse == [statusCode |-> 0, input_key |-> <<>>, output_key |-> <<>>, bucket |-> ""]
NoUpload == [bucket |-> None, key |-> <<>>, src |-> NoEvent]
NoDuration == <<0, 0>>
NoGenerate ==
    [input |-> <<>>, output |-> <<>>, sample_duration |-> 0, sample_seconds |-> <<>>,
     scale |-> None, format |-> <<>>, quiet |-> FALSE]

IdleFrame ==
    [pc |-> "idle", records |-> <<>>, event |-> NoEvent, key |-> <<>>, output_key |-> <<>>,
     out_file |-> <<>>, tmp_input_file |-> <<>>, video_duration |-> NoDuration,
     sample_seconds |-> <<>>, error |-> NoError, response |-> NoResponse,
     calls |-> [s \in StageNames |-> 0], ok |-> {}, uploaded |-> NoUpload,
     probed |-> NoEvent, log |-> <<>>,
     downloaded |-> NoEvent, planned_with |-> NoDuration,
     generated_with |-> NoGenerate]

Exists(path) == path \in DOMAIN files
Write(fs, path, content) == (path :> content) @@ fs
Remove(fs, path) == [q \in DOMAIN fs \ {path} |-> fs[q]]

Called(f, stage) == [f EXCEPT !.calls[stage] = @ + 1]
Succeeded(f, stage) == [f EXCEPT !.ok = @ \cup {stage}]
Logged(f, msg) == [f EXCEPT !.log = Append(@, msg)]
Raise(f, type, stage, stderr) ==
    [f EXCEPT !.pc = "raised",
              !.error = [type |-> type, stage |-> stage, stderr |-> stderr]]

ConfigInit ==
    /\ scale = None
    /\ format = <<"m", "p", "4">>
    /\ s3_output_prefix = <<"o", "u", "t", "p", "u", "t">>
    /\ debug = FALSE

Init ==
    /\ samples = DefaultSamples
    /\ sample_duration = DefaultSampleDuration
    /\ ConfigInit
    /\ frame = [i \in Invs |-> IdleFrame]
    /\ files = <<>>

InitPlan ==
    /\ samples \in -1..MaxSamples
    /\ sample_duration \in -1..MaxSampleDuration
    /\ ConfigInit
    /\ frame = [i \in Invs |-> IdleFrame]
    /\ files = <<>>

(***************************************************************************)
(* lambda_handler, one action per step                                      *)
(***************************************************************************)
\* variant: the output key keeps the input's file name, with no "_prev"
OutputKeySameName(file_name) ==
    join(s3_output_prefix, file_name \o <<".">> \o format)

\* lines 21-30: the key, the output key, the output temp file, the input path
OutputKey(file_name) ==
    join(s3_output_prefix, file_name \o <<"_", "p", "r", "e", "v", ".">> \o format)

TmpInputFile(key) == join(TmpDir, basename(key))

\* tempfile.NamedTemporaryFile: a name under the temp directory that no
\* existing file has
NamedTemporaryFile == { join(TmpDir, <<n>>) : n \in TmpNames } \ DOMAIN files

\* variant: the last record of the event is taken
LastRecord(records) == records[Len(records)]

\* line 21: event['Records'][0]
FirstRecord(records) == records[1]

\* variant: the key is used as the event carries it, still URL-encoded
RawKey(ev) == ev.key

\* line 22
DecodedKey(ev) == unquote_plus(ev.key)

Begin(i, EV) ==
    /\ frame[i].pc = "idle"
    /\ \E recs \in EV :
         LET ev == FirstRecord(recs)
             key == DecodedKey(ev)
             parts == split(basename(key), ".")
             f0 == [IdleFrame EXCEPT !.records = recs, !.event = ev, !.key = key]
         IN  IF Len(parts) # 2
             THEN /\ frame' = [frame EXCEPT ![i] = Raise(f0, "ValueError", "parse", None)]
                  /\ UNCHANGED files
             ELSE \E name \in NamedTemporaryFile :
                    /\ frame' = [frame EXCEPT ![i] =
                                   [f0 EXCEPT !.pc = "download",
                                              !.output_key = OutputKey(parts[1]),
                                              !.out_file = name,
                                              !.tmp_input_file = TmpInputFile(key)]]
                    /\ files' = Write(files, name, [kind |-> "empty", src |-> NoEvent])
    /\ UNCHANGED config

\* variant: the download's except clause logs and does not re-raise
DownloadFailedSwallowed(f) ==
    [Logged(f, "error: Failed to download input file") EXCEPT !.pc = "probe"]

\* lines 32-38
DownloadFailed(f) ==
    Raise(Logged(f, "error: Failed to download input file"), "ClientError", "download", None)

\* variant: an input file already at the path is kept and not downloaded again
DownloadedIfAbsent(fs, f) ==
    IF f.tmp_input_file \in DOMAIN fs THEN fs
    ELSE Write(fs, f.tmp_input_file, [kind |-> "object", src |-> f.downloaded])

\* line 35: download_file writes the object to tmp_input_file
Downloaded(fs, f) ==
    Write(fs, f.tmp_input_file, [kind |-> "object", src |-> f.downloaded])

Download(i) ==
    /\ frame[i].pc = "download"
    /\ LET f == [Called(frame[i], "download")
                   EXCEPT !.downloaded = [bucket |-> frame[i].event.bucket,
                                          key |-> frame[i].key]] IN
       \/ /\ frame' = [frame EXCEPT ![i] =
                         [Succeeded(Logged(f, "info: Downloading file"), "download")
                            EXCEPT !.pc = "probe"]]
          /\ files' = Downloaded(files, f)
       \/ /\ frame' = [frame EXCEPT ![i] = DownloadFailed(Logged(f, "info: Downloading file"))]
          /\ UNCHANGED files
    /\ UNCHANGED config

\* lines 48-51: 'e' is unbound once its except clause has been left, and no
\* other local is named e, so the finally clause logs only when bound is TRUE
ProbeFinally(f, bound, stderr) ==
    IF bound /\ stderr # None THEN Logged(f, stderr) ELSE f

\* lines 44-47
ProbeEngineError(f, stderr) ==
    Raise(ProbeFinally(Logged(Logged(f, "error: failed to get video info"), stderr),
                       FALSE, stderr),
          "ffmpeg.Error", "probe", stderr)

\* line 43 raising KeyError or ValueError: no except clause matches
ProbeParseError(f, type) ==
    Raise(ProbeFinally(f, FALSE, None), type, "probe", None)

\* lines 40-51
Probe(i, DS) ==
    /\ frame[i].pc = "probe"
    /\ LET f == Called(frame[i], "probe") IN
       \E a \in ProbeAnswers(DS) :
         /\ ~Exists(f.tmp_input_file) => a.kind = "error"
         /\ LET g == IF Exists(f.tmp_input_file)
                     THEN [f EXCEPT !.probed = files[f.tmp_input_file].src]
                     ELSE f
            IN frame' = [frame EXCEPT ![i] =
                 CASE a.kind = "error" -> ProbeEngineError(g, a.stderr)
                   [] a.kind = "no_duration" -> ProbeParseError(g, "KeyError")
                   [] a.kind = "unparseable" -> ProbeParseError(g, "ValueError")
                   [] OTHER ->
                        [Succeeded(ProbeFinally(g, FALSE, None), "probe")
                           EXCEPT !.pc = "plan", !.video_duration = a.duration]]
    /\ UNCHANGED <<config, files>>

\* variant: the call passes sample_duration and samples in each other's place
PlanCallSwapped(video_duration, n, sd) == calculate_sample_seconds(video_duration, sd, n)

\* variant: a planner failure is caught and generation goes on with no plan
PlanFailedIgnored(f) == [f EXCEPT !.pc = "generate"]

\* line 54
PlanCall(video_duration, n, sd) == calculate_sample_seconds(video_duration, n, sd)

\* line 54 is in no try block: the planner's exception leaves the handler
PlanFailed(f) == Raise(f, "InvalidInput", "plan", None)

Plan(i) ==
    /\ frame[i].pc = "plan"
    /\ LET f == [Called(frame[i], "plan") EXCEPT !.planned_with = frame[i].video_duration]
           r == PlanCall(f.video_duration, samples, sample_duration)
       IN frame' = [frame EXCEPT ![i] =
            IF ~r.ok THEN PlanFailed(f)
            ELSE [Succeeded(f, "plan") EXCEPT !.pc = "generate", !.sample_seconds = r.plan]]
    /\ UNCHANGED <<config, files>>

\* lines 56-62
GenerateFailed(f, stderr) ==
    Raise(Logged(f, "error: failed to generate video preview"), "EncodingFailed", "generate", stderr)

\* variant: only the first timestamp of the plan is passed on
GenerateArgsFirstOnly(f) ==
    [input |-> f.tmp_input_file, output |-> f.out_file,
     sample_duration |-> sample_duration, sample_seconds |-> SubSeq(f.sample_seconds, 1, 1),
     scale |-> scale, format |-> format, quiet |-> ~debug]

\* line 59: the arguments of generate_video_preview
GenerateArgs(f) ==
    [input |-> f.tmp_input_file, output |-> f.out_file,
     sample_duration |-> sample_duration, sample_seconds |-> f.sample_seconds,
     scale |-> scale, format |-> format, quiet |-> ~debug]

Generate(i) ==
    /\ frame[i].pc = "generate"
    /\ LET f == [Called(frame[i], "generate") EXCEPT !.generated_with = GenerateArgs(frame[i])] IN
       \/ /\ Exists(f.tmp_input_file)
          /\ frame' = [frame EXCEPT ![i] = [Succeeded(f, "generate") EXCEPT !.pc = "upload"]]
          /\ files' = Write(files, f.out_file,
                            [kind |-> "preview", src |-> files[f.tmp_input_file].src])
       \/ /\ \E x \in EngineDiag : frame' = [frame EXCEPT ![i] = GenerateFailed(f, x)]
          /\ UNCHANGED files
    /\ UNCHANGED config

\* lines 64-70
UploadFailed(f) ==
    Raise(Logged(f, "error: failed to upload video preview"), "S3UploadFailedError", "upload", None)

Upload(i) ==
    /\ frame[i].pc = "upload"
    /\ LET f == Called(frame[i], "upload") IN
       \E output_bucket \in OutputBuckets :
         \/ /\ output_bucket # None
            /\ Exists(f.out_file)
            /\ frame' = [frame EXCEPT ![i] =
                 [Succeeded(f, "upload")
                    EXCEPT !.pc = "cleanup",
                           !.uploaded = [bucket |-> output_bucket, key |-> f.output_key,
                                         src |-> files[f.out_file].src]]]
         \/ frame' = [frame EXCEPT ![i] = UploadFailed(f)]
    /\ UNCHANGED <<config, files>>

\* lines 80-88
Response(f) ==
    [statusCode |-> 200, input_key |-> f.key, output_key |-> f.output_key,
     bucket |-> f.event.bucket]

\* variant: a failure of os.remove leaves the handler
RemoveFailedRaises(f) == Raise(f, "OSError", "remove", None)

\* lines 76-77
RemoveFailed(f) == Logged(f, "warning: Failed to clean up temporary file")

\* lines 72-88; on return the frame is released and out_file, the only
\* reference to the NamedTemporaryFile(delete=True), is closed
Cleanup(i) ==
    /\ frame[i].pc = "cleanup"
    /\ LET f == frame[i]
           ret(g) == IF g.pc = "raised" THEN g
                     ELSE [g EXCEPT !.pc = "returned", !.response = Response(g)]
       IN
       \/ /\ Exists(f.tmp_input_file)
          /\ frame' = [frame EXCEPT ![i] = ret(Called(f, "remove"))]
          /\ files' = Remove(Remove(files, f.tmp_input_file), f.out_file)
       \/ /\ Exists(f.tmp_input_file)
          /\ frame' = [frame EXCEPT ![i] = ret(RemoveFailed(Called(f, "remove")))]
          /\ files' = Remove(files, f.out_file)
       \/ /\ ~Exists(f.tmp_input_file)
          /\ frame' = [frame EXCEPT ![i] = ret(f)]
          /\ files' = Remove(files, f.out_file)
    /\ UNCHANGED config

\* the caller has taken the outcome; the exception and its traceback, which
\* kept the frame and out_file alive, are dropped
Finish(i) ==
    /\ frame[i].pc \in {"returned", "raised"}
    /\ frame' = [frame EXCEPT ![i] = IdleFrame]
    /\ files' = Remove(files, frame[i].out_file)
    /\ UNCHANGED config

Next ==
    \E i \in Invs :
        \/ Begin(i, ConcRecords)
        \/ Download(i)
        \/ Probe(i, ConcDurations)
        \/ Plan(i)
        \/ Generate(i)
        \/ Upload(i)
        \/ Cleanup(i)
        \/ Finish(i)

Spec == Init /\ [][Next]_vars

\* one invocation at a time, every configuration and every duration
NextPlan ==
    \/ Begin(1, PlanRecords)
    \/ Download(1)
    \/ Probe(1, Durations)
    \/ Plan(1)
    \/ Generate(1)
    \/ Upload(1)
    \/ Cleanup(1)
    \/ Finish(1)

SpecPlan == InitPlan /\ [][NextPlan]_vars

\* one invocation at a time, every output prefix and format, events of one
\* or two records
Prefixes == { <<"o", "u", "t", "p", "u", "t">>, <<>>, <<"a">>, <<"a", "/">> }
Formats == { <<"m", "p", "4">>, <<"m", "o", "v">> }

InitKeys ==
    /\ samples = DefaultSamples
    /\ sample_duration = DefaultSampleDuration
    /\ scale = None
    /\ format \in Formats
    /\ s3_output_prefix \in Prefixes
    /\ debug = FALSE
    /\ frame = [i \in Invs |-> IdleFrame]
    /\ files = <<>>

NextKeys ==
    \/ Begin(1, Records(KeyEvents))
    \/ Download(1)
    \/ Probe(1, ConcDurations)
    \/ Plan(1)
    \/ Generate(1)
    \/ Upload(1)
    \/ Cleanup(1)
    \/ Finish(1)

SpecKeys == InitKeys /\ [][NextKeys]_vars

(***************************************************************************)
(* Properties                                                               *)
(***************************************************************************)
Planned(i) == "plan" \in frame[i].ok
Usable(i) == RSub(frame[i].video_duration, RInt(sample_duration))
Longer(i) == RLt(RInt(sample_duration), frame[i].video_duration)

StrictlyIncreasing(p) == \A k \in 1..(Len(p) - 1) : RLt(p[k], p[k + 1])
WithinSource(i) ==
    \A k \in 1..Len(frame[i].sample_seconds) :
        /\ RLe(RInt(0), frame[i].sample_seconds[k])
        /\ RLe(RAdd(frame[i].sample_seconds[k], RInt(sample_duration)),
               frame[i].video_duration)
NoOverlap(p) ==
    \A k \in 1..(Len(p) - 1) : RLe(RInt(sample_duration), RSub(p[k + 1], p[k]))

\* C1: for a duration above sample_duration and samples >= 2 the plan the
\* handler obtains has exactly 'samples' timestamps, strictly increasing, each
\* between 0 and duration - sample_duration.
C1_ExactlyNOrdered ==
    \A i \in Invs :
        (Planned(i) /\ Longer(i) /\ samples >= 2) =>
            /\ Len(frame[i].sample_seconds) = samples
            /\ StrictlyIncreasing(frame[i].sample_seconds)
            /\ \A k \in 1..Len(frame[i].sample_seconds) :
                 /\ RLe(RInt(0), frame[i].sample_seconds[k])
                 /\ RLe(frame[i].sample_seconds[k], Usable(i))

C1_Witness ==
    \E i \in Invs :
        /\ Planned(i) /\ samples = 4 /\ sample_duration = 2
        /\ frame[i].video_duration = RInt(10)
        /\ frame[i].sample_seconds = <<RInt(0), Rat(8, 3), Rat(16, 3), RInt(8)>>

\* C2 as stated: every planned sample interval [t, t + sample_duration] lies
\* within [0, duration], short videos included.
C2_AllIntervalsWithin ==
    \A i \in Invs : Planned(i) => WithinSource(i)

\* C2 amended: the intervals lie within [0, duration] when duration >=
\* sample_duration; for a shorter video the plan is the single timestamp 0.
C2_IntervalsWithinWhenLongEnough ==
    \A i \in Invs :
        Planned(i) =>
            IF RLe(RInt(sample_duration), frame[i].video_duration)
            THEN WithinSource(i)
            ELSE frame[i].sample_seconds = <<RInt(0)>>

C2_Witness ==
    \E i \in Invs :
        /\ Planned(i) /\ samples = 1 /\ sample_duration = 2
        /\ frame[i].video_duration = RInt(3)
        /\ WithinSource(i)

\* C3: a video no longer than sample_duration gets the one timestamp 0; every
\* plan has between 1 and 'samples' timestamps, so generation is never called
\* with an empty plan.
C3_ShortVideoSingleSample ==
    \A i \in Invs :
        /\ Planned(i) =>
             /\ ~Longer(i) => frame[i].sample_seconds = <<RInt(0)>>
             /\ Len(frame[i].sample_seconds) >= 1
             /\ Len(frame[i].sample_seconds) <= samples
        /\ frame[i].calls["generate"] > 0 => Len(frame[i].sample_seconds) >= 1

C3_Witness ==
    \E i \in Invs :
        /\ frame[i].calls["generate"] > 0 /\ samples = 4 /\ sample_duration = 2
        /\ frame[i].video_duration = Rat(3, 2)
        /\ frame[i].sample_seconds = <<RInt(0)>>

\* C4 as stated: in every plan consecutive timestamps are at least
\* sample_duration apart.
C4_NeverOverlap ==
    \A i \in Invs : Planned(i) => NoOverlap(frame[i].sample_seconds)

\* C4 amended: consecutive timestamps are at least sample_duration apart
\* exactly when the plan has one timestamp or duration >= samples *
\* sample_duration.
C4_NoOverlapIffRoom ==
    \A i \in Invs :
        Planned(i) =>
            (NoOverlap(frame[i].sample_seconds) <=>
                \/ Len(frame[i].sample_seconds) = 1
                \/ RLe(RInt(samples * sample_duration), frame[i].video_duration))

C4_Witness ==
    \E i \in Invs :
        /\ Planned(i) /\ samples = 3 /\ sample_duration = 2
        /\ frame[i].video_duration = RInt(6)
        /\ frame[i].sample_seconds = <<RInt(0), RInt(2), RInt(4)>>

\* C5: a duration <= 0, samples < 1 or sample_duration <= 0 makes the planner
\* signal InvalidInput, which ends the invocation with no plan, no preview
\* generation and no upload.
InvalidPlanInput(i) ==
    \/ RLe(frame[i].video_duration, RInt(0))
    \/ samples < 1
    \/ sample_duration <= 0

C5_InvalidInputEndsInvocation ==
    \A i \in Invs :
        (frame[i].calls["plan"] > 0 /\ InvalidPlanInput(i)) =>
            /\ frame[i].pc = "raised"
            /\ frame[i].error.type = "InvalidInput"
            /\ frame[i].error.stage = "plan"
            /\ frame[i].sample_seconds = <<>>
            /\ frame[i].calls["generate"] = 0
            /\ frame[i].calls["upload"] = 0

C5_Witness ==
    \E i \in Invs :
        /\ frame[i].calls["plan"] > 0 /\ sample_duration = 0 /\ samples = 4
        /\ frame[i].video_duration = RInt(10)
        /\ frame[i].error.type = "InvalidInput"

\* C6: with samples = 1 and a duration above sample_duration the plan is the
\* single timestamp (duration - sample_duration) / 2.
C6_SingleSampleCentered ==
    \A i \in Invs :
        (Planned(i) /\ samples = 1 /\ Longer(i)) =>
            frame[i].sample_seconds = <<RDivInt(Usable(i), 2)>>

C6_Witness ==
    \E i \in Invs :
        /\ Planned(i) /\ samples = 1 /\ sample_duration = 2
        /\ frame[i].video_duration = RInt(20)
        /\ frame[i].sample_seconds = <<RInt(9)>>

StageIndex(s) == CHOOSE k \in 1..Len(Stages) : Stages[k] = s
AllStages == {Stages[k] : k \in 1..Len(Stages)}

\* C7: a failing stage ends the invocation by raising its error; no stage runs
\* after a failed one, none runs twice, and the statusCode 200 response is
\* returned only when download, probe, plan, generation and upload succeeded.
C7_ErrorsAreTerminal ==
    \A i \in Invs :
        LET f == frame[i] IN
        /\ \A s \in AllStages :
             /\ f.calls[s] <= 1
             /\ s \in f.ok => f.calls[s] = 1
             /\ f.calls[s] > 0 =>
                  \A k \in 1..(StageIndex(s) - 1) : Stages[k] \in f.ok
             /\ (f.calls[s] > 0 /\ s \notin f.ok) =>
                  /\ f.pc = "raised"
                  /\ f.error.stage = s
                  /\ f.response = NoResponse
        /\ f.response.statusCode = 200 <=> f.pc = "returned"
        /\ f.pc = "returned" => f.ok = AllStages /\ f.error = NoError

C7_Witness ==
    \E i \in Invs :
        /\ frame[i].pc = "raised"
        /\ frame[i].error.stage = "generate"
        /\ frame[i].ok = {"download", "probe", "plan"}
        /\ frame[i].calls["upload"] = 0

\* C8: every failure of the probe step is signalled as the engine's error
\* carrying the engine's diagnostic text, and planning is not reached.
C8_ProbeFailedCarriesDiagnostic ==
    \A i \in Invs :
        (frame[i].pc = "raised" /\ frame[i].error.stage = "probe") =>
            /\ frame[i].error.type = "ffmpeg.Error"
            /\ frame[i].error.stderr \in EngineDiag
            /\ frame[i].calls["plan"] = 0

\* C9: an invocation that ends with a probe failure has created no output
\* file and has uploaded nothing.
C9_NoOutputFileOnProbeFailure ==
    \A i \in Invs :
        (frame[i].pc = "raised" /\ frame[i].error.stage = "probe") =>
            /\ frame[i].out_file = <<>>
            /\ frame[i].calls["upload"] = 0

\* C10: two invocations in progress at the same time have different local
\* input paths and different local output paths.
InProgress(i) == frame[i].tmp_input_file # <<>>

C10_IsolatedTemporaryFiles ==
    \A i, j \in Invs :
        (i # j /\ InProgress(i) /\ InProgress(j)) =>
            /\ frame[i].tmp_input_file # frame[j].tmp_input_file
            /\ frame[i].out_file # frame[j].out_file

Ended(i) == frame[i].pc \in {"returned", "raised"}
Own(i) == [bucket |-> frame[i].event.bucket, key |-> frame[i].key]
PrevSuffix == <<"_", "p", "r", "e", "v", ".">>

\* C11: when the handler has ended, by return or by raise, neither the
\* downloaded input file nor the temporary output file exists any more.
C11_WorkspaceReleased ==
    \A i \in Invs :
        Ended(i) =>
            /\ ~Exists(frame[i].tmp_input_file)
            /\ ~Exists(frame[i].out_file)

\* C12 as stated: every invocation downloads exactly one object, that of
\* Records[0], generates at most once, uploads exactly once to output_key when
\* it succeeds and at most once when it fails.
FirstObject(i) ==
    [bucket |-> frame[i].records[1].bucket, key |-> unquote_plus(frame[i].records[1].key)]

C12_OneOutput(i) ==
    /\ frame[i].calls["generate"] <= 1
    /\ frame[i].pc = "returned" =>
         /\ frame[i].calls["upload"] = 1
         /\ frame[i].uploaded.key = frame[i].output_key
         /\ frame[i].uploaded.bucket \in OutputBuckets \ {None}
    /\ frame[i].pc = "raised" => frame[i].calls["upload"] <= 1

C13_StageOrder ==
    \A i \in Invs :
        LET f == frame[i] IN
        /\ f.calls["probe"] > 0 => "download" \in f.ok
        /\ f.calls["plan"] > 0 =>
             /\ "probe" \in f.ok
             /\ f.video_duration # NoDuration
             /\ f.planned_with = f.video_duration
        /\ f.calls["generate"] > 0 =>
             /\ "plan" \in f.ok
             /\ f.generated_with.sample_seconds =
                  calculate_sample_seconds(f.planned_with, samples, sample_duration).plan
             /\ f.generated_with.input = f.tmp_input_file
             /\ f.generated_with.output = f.out_file
        /\ f.calls["upload"] > 0 => "generate" \in f.ok
        /\ f.calls["remove"] > 0 => "upload" \in f.ok
        /\ f.pc \in {"cleanup", "returned"} => "upload" \in f.ok

C13_Witness ==
    \E i \in Invs :
        /\ frame[i].pc = "returned"
        /\ frame[i].planned_with = RInt(20)
        /\ frame[i].generated_with.sample_seconds = <<RInt(0), RInt(6), RInt(12), RInt(18)>>

\* C14: the key the handler uploads to is never the key it read, whatever the
\* output prefix, the format and the buckets; the object it read is only ever
\* downloaded.
C14_SourceNotMutated ==
    \A i \in Invs :
        /\ frame[i].uploaded # NoUpload =>
             /\ frame[i].uploaded.key # frame[i].key
             /\ frame[i].uploaded.key = frame[i].output_key
        /\ frame[i].output_key # <<>> => frame[i].output_key # frame[i].key
        /\ frame[i].downloaded # NoEvent => frame[i].downloaded = Own(i)

C14_Witness ==
    \E i \in Invs :
        /\ frame[i].uploaded # NoUpload
        /\ frame[i].uploaded.bucket = frame[i].event.bucket
        /\ s3_output_prefix = <<"o", "u", "t", "p", "u", "t">>
        /\ frame[i].key = s3_output_prefix \o <<"/", "v">> \o PrevSuffix \o format

\* C15: with invocations run one after another, the handler never writes the
\* module configuration, every file it reads is the one it wrote itself, and
\* the files it needs are there whatever earlier invocations left behind, so
\* its outcome is decided by its event, the configuration and the answers of
\* S3, the engine and the file system.
OwnFilesOnly(i) ==
    LET f == frame[i] IN
    /\ f.pc \in {"probe", "plan", "generate", "upload", "cleanup"} =>
         /\ Exists(f.tmp_input_file)
         /\ files[f.tmp_input_file].src = Own(i)
         /\ Exists(f.out_file)
    /\ f.probed # NoEvent => f.probed = Own(i)
    /\ f.uploaded # NoUpload =>
         /\ f.uploaded.src = Own(i)
         /\ f.uploaded.key = OutputKey(split(basename(f.key), ".")[1])
    /\ f.pc = "returned" =>
         f.response = [statusCode |-> 200, input_key |-> f.key,
                       output_key |-> f.uploaded.key, bucket |-> f.event.bucket]

C15_SequentialInvocationsIndependent ==
    [][config' = config /\ \A i \in Invs : OwnFilesOnly(i)']_vars

C15_Witness ==
    \E i \in Invs :
        /\ frame[i].pc = "raised"
        /\ frame[i].error.stage = "download"
        /\ Exists(frame[i].tmp_input_file)
        /\ files[frame[i].tmp_input_file].src # Own(i)
        /\ frame[i].probed = NoEvent

\* C16: once the upload has succeeded the handler returns the statusCode 200
\* response with the input key, the bucket and the uploaded output key,
\* whether os.remove succeeds, fails (a warning is logged) or is not called.
CleanupWarning == "warning: Failed to clean up temporary file"
HasWarning(i) == \E k \in 1..Len(frame[i].log) : frame[i].log[k] = CleanupWarning

C16_CleanupIsBestEffort ==
    \A i \in Invs :
        "upload" \in frame[i].ok =>
            /\ frame[i].pc \in {"cleanup", "returned"}
            /\ frame[i].pc = "returned" =>
                 /\ frame[i].response =
                      [statusCode |-> 200, input_key |-> frame[i].key,
                       output_key |-> frame[i].uploaded.key, bucket |-> frame[i].event.bucket]
                 /\ frame[i].calls["remove"] <= 1
                 /\ HasWarning(i) => frame[i].calls["remove"] = 1

C16_Witness ==
    \E i \in Invs :
        /\ frame[i].pc = "returned"
        /\ HasWarning(i)
        /\ frame[i].response.statusCode = 200

====
